---- MODULE Spec2Model ----
(***************************************************************************)
(* Model of the polling loop of phase_1/price_pulse.py: main(), the        *)
(* SIGINT handler and the contract of fetch_price().                       *)
(*                                                                         *)
(* Time is counted in ticks of 0.1 s, the argument of the time.sleep call  *)
(* of the poll wait.  A time.sleep call that a signal interrupts resumes   *)
(* for the rest of its duration once the handler has returned, since the   *)
(* handler raises nothing; the handler may run between any two steps of    *)
(* main().  Prices are integers and the quotient sum/len is kept as an     *)
(* exact fraction.  Writing the status line and the log records to the     *)
(* standard streams is taken to succeed.                                   *)
(***************************************************************************)
EXTENDS Integers, Sequences, FiniteSets

\* ------------------------------------------------------------ constants
WindowSize == 10
BaseBackoff == 1
BackoffFactor == 2
MaxBackoff == 60
WarnThreshold == 5
PollSteps == 10
TicksPerSecond == 10

\* --------------------------------------------------------------- bounds
\* Spec: two prices, enough records to overflow the window.
MaxRecords == 11
MaxFails == 1
\* SpecBackoff: one price, enough consecutive failures to sit on the cap.
MaxRecordsB == 2
MaxFailsB == 8
\* SpecScenario: the four prices of the end-to-end scenario.
MaxRecordsS == 4
MaxFailsS == 1
\* Saturation of the two counters that measure lateness after a request.
LateCap == 2

Prices == {100, 200}
PricesB == {100}
PricesS == {100, 200, 300, 400}

\* What fetch_price() can raise: requests.RequestException (timeout,
\* connection error, raise_for_status, undecodable JSON), ValueError
\* (timestamp out of range), KeyError (a missing 'bitcoin', 'usd' or
\* 'last_updated_at' key), TypeError (a body or a field of the wrong type).
Raised == {"RequestException", "ValueError", "KeyError", "TypeError"}

VARIABLES
    should_shutdown,       \* the module-level flag
    pc,                    \* position of main()
    price_window,          \* deque(maxlen=10)
    consecutive_failures,
    backoff,
    poll_i,                \* iterations of the for loop already completed
    sleep_left,            \* ticks left of the time.sleep call in progress
    error_logged,          \* the last handled failure raised logging.error
    exit_status,           \* -1 while running, else the process's status
    uncaught,              \* the exception that left main(), or "none"
    \* history, read by the properties only
    recorded,              \* every appended price, in arrival order
    sma_log,               \* the sma of every status line, in order
    failRun,               \* handled failures since the last status line
    elapsed,               \* ticks slept by the backoff wait of the latest
                           \* handled failure (0 after a status line)
    waited,                \* ticks the wait in progress has slept after
                           \* the request
    late_fetches,          \* fetch attempts begun with the flag set
    begun                  \* some fetch attempt has begun

vars == <<should_shutdown, pc, price_window, consecutive_failures, backoff,
          poll_i, sleep_left, error_logged, exit_status, uncaught,
          recorded, sma_log, failRun, elapsed, waited, late_fetches, begun>>

hist == <<recorded, sma_log, failRun, elapsed, waited, late_fetches, begun>>

\* ------------------------------------------------------------- helpers
Min(a, b) == IF a < b THEN a ELSE b

RECURSIVE Pow2(_)
Pow2(n) == IF n <= 0 THEN 1 ELSE 2 * Pow2(n - 1)

RECURSIVE Gcd(_, _)
Gcd(a, b) == IF b = 0 THEN a ELSE Gcd(b, a % b)

RECURSIVE SumSeq(_)
SumSeq(s) == IF s = <<>> THEN 0 ELSE Head(s) + SumSeq(Tail(s))

\* a / b as an exact fraction in lowest terms
Quot(a, b) == LET g == Gcd(a, b) IN <<a \div g, b \div g>>

Terminal == {"exited", "crashed"}
Sleeping == {"poll_sleep", "backoff_sleep"}

\* ------------------------------------------------- the code's operators
\* mutant: a full window drops the arriving sample instead of the oldest
AppendKeepOldest(w, p) == IF Len(w) < WindowSize THEN Append(w, p) ELSE w

\* deque(maxlen=10).append
DequeAppend(w, p) ==
    IF Len(w) < WindowSize THEN Append(w, p) ELSE Append(Tail(w), p)

\* mutant: the sum is always divided by the capacity
SmaByCapacity(w, price) == Quot(SumSeq(w), WindowSize)

\* sum(price_window) / len(price_window) if price_window else price
Sma(w, price) == IF Len(w) > 0 THEN Quot(SumSeq(w), Len(w)) ELSE <<price, 1>>

\* mutant: the delay doubles without the cap
DoubleUncapped(b) == b * BackoffFactor

\* mutant: the delay is capped before it is doubled
DoubleAfterCap(b) == Min(b, MaxBackoff) * BackoffFactor

\* backoff = min(backoff * 2, 60)
NextBackoff(b) == Min(b * BackoffFactor, MaxBackoff)

\* mutant: the report starts one failure late
WarnAfterThreshold(cf) == cf > WarnThreshold

\* if consecutive_failures >= 5
ShouldWarn(cf) == cf >= WarnThreshold

\* mutant: while True
LoopAlways(flag) == TRUE

\* while not should_shutdown
LoopCondition(flag) == ~flag

\* mutant: the sample is appended before the fetch is known to have worked
WindowAppendAlways(w, ok, p) == DequeAppend(w, p)

\* The window after an attempt: the append of line 92 runs only when
\* fetch_price() returned; an exception skips it.
WindowAfterAttempt(w, ok, p) == IF ok THEN DequeAppend(w, p) ELSE w

\* except (requests.RequestException, ValueError)
IsCaught(exc) == exc \in {"RequestException", "ValueError"}

\* ---------------------------------------------------------------- Init
Init ==
    /\ should_shutdown = FALSE
    /\ pc = "loop_test"
    /\ price_window = <<>>
    /\ consecutive_failures = 0
    /\ backoff = BaseBackoff
    /\ poll_i = 0
    /\ sleep_left = 0
    /\ error_logged = FALSE
    /\ exit_status = -1
    /\ uncaught = "none"
    /\ recorded = <<>>
    /\ sma_log = <<>>
    /\ failRun = 0
    /\ elapsed = 0
    /\ waited = 0
    /\ late_fetches = 0
    /\ begun = FALSE

\* ------------------------------------------------------------- actions
\* signal_handler: SIGINT may be delivered at any point of a live process.
Sigint ==
    /\ pc \notin Terminal
    /\ should_shutdown' = TRUE
    /\ UNCHANGED <<pc, price_window, consecutive_failures, backoff, poll_i,
                   sleep_left, error_logged, exit_status, uncaught, hist>>

\* while not should_shutdown: ... ; sys.exit(0)
LoopTest ==
    /\ pc = "loop_test"
    /\ IF LoopCondition(should_shutdown)
       THEN pc' = "call_fetch" /\ exit_status' = exit_status
       ELSE pc' = "exited" /\ exit_status' = 0
    /\ UNCHANGED <<should_shutdown, price_window, consecutive_failures,
                   backoff, poll_i, sleep_left, error_logged, uncaught, hist>>

\* The call fetch_price() is entered: the request goes out.
FetchBegin ==
    /\ pc = "call_fetch"
    /\ pc' = "in_flight"
    /\ begun' = TRUE
    /\ late_fetches' =
          IF should_shutdown THEN Min(late_fetches + 1, LateCap) ELSE late_fetches
    /\ UNCHANGED <<should_shutdown, price_window, consecutive_failures,
                   backoff, poll_i, sleep_left, error_logged, exit_status,
                   uncaught, recorded, sma_log, failRun, elapsed, waited>>

\* fetch_price() returns a price: append, compute the sma, print the status
\* line, reset the two backoff variables, enter the poll wait.
FetchOk(P, maxRec) ==
    /\ pc = "in_flight"
    /\ Len(recorded) < maxRec
    /\ \E price \in P :
          LET w == WindowAfterAttempt(price_window, TRUE, price)
              sma == Sma(w, price)
          IN  /\ price_window' = w
              /\ recorded' = Append(recorded, price)
              /\ sma_log' = Append(sma_log, sma)
    /\ consecutive_failures' = 0
    /\ backoff' = BaseBackoff
    /\ error_logged' = FALSE
    /\ failRun' = 0
    /\ poll_i' = 0
    /\ elapsed' = 0
    /\ waited' = 0
    /\ pc' = "poll_check"
    /\ UNCHANGED <<should_shutdown, sleep_left, exit_status, uncaught,
                   late_fetches, begun>>

\* fetch_price() raises an exception the except clause names: warn, count,
\* announce the retry and call time.sleep(backoff).
FetchFail(maxFail) ==
    /\ pc = "in_flight"
    /\ consecutive_failures < maxFail
    /\ \E exc \in Raised :
          /\ IsCaught(exc)
          /\ price_window' = WindowAfterAttempt(price_window, FALSE, 0)
    /\ consecutive_failures' = consecutive_failures + 1
    /\ failRun' = failRun + 1
    /\ error_logged' = FALSE
    /\ sleep_left' = backoff * TicksPerSecond
    /\ elapsed' = 0
    /\ waited' = 0
    /\ pc' = "backoff_sleep"
    /\ UNCHANGED <<should_shutdown, backoff, poll_i, exit_status, uncaught,
                   recorded, sma_log, late_fetches, begun>>

\* fetch_price() raises an exception the except clause does not name: it
\* leaves main() and the interpreter ends the process with status 1.
FetchCrash ==
    /\ pc = "in_flight"
    /\ \E exc \in Raised :
          /\ ~IsCaught(exc)
          /\ uncaught' = exc
    /\ pc' = "crashed"
    /\ exit_status' = 1
    /\ UNCHANGED <<should_shutdown, price_window, consecutive_failures,
                   backoff, poll_i, sleep_left, error_logged, hist>>

\* for _ in range(10): if should_shutdown: break; time.sleep(0.1)
PollCheck ==
    /\ pc = "poll_check"
    /\ IF poll_i >= PollSteps \/ should_shutdown
       THEN pc' = "loop_test" /\ sleep_left' = sleep_left /\ waited' = 0
       ELSE pc' = "poll_sleep" /\ sleep_left' = 1 /\ waited' = waited
    /\ UNCHANGED <<should_shutdown, price_window, consecutive_failures,
                   backoff, poll_i, error_logged, exit_status, uncaught,
                   recorded, sma_log, failRun, elapsed, late_fetches, begun>>

\* One tick of the time.sleep call in progress goes by.
Tick ==
    /\ pc \in Sleeping
    /\ sleep_left > 0
    /\ sleep_left' = sleep_left - 1
    /\ elapsed' = IF pc = "backoff_sleep" THEN elapsed + 1 ELSE elapsed
    /\ waited' = IF should_shutdown THEN Min(waited + 1, LateCap) ELSE waited
    /\ UNCHANGED <<should_shutdown, pc, price_window, consecutive_failures,
                   backoff, poll_i, error_logged, exit_status, uncaught,
                   recorded, sma_log, failRun, late_fetches, begun>>

\* time.sleep(0.1) returns: next iteration of the for loop.
PollSleepReturn ==
    /\ pc = "poll_sleep"
    /\ sleep_left = 0
    /\ poll_i' = poll_i + 1
    /\ pc' = "poll_check"
    /\ UNCHANGED <<should_shutdown, price_window, consecutive_failures,
                   backoff, sleep_left, error_logged, exit_status, uncaught,
                   hist>>

\* time.sleep(backoff) returns: double the delay, report when the failures
\* have reached the threshold, go back to the loop test.
BackoffReturn ==
    /\ pc = "backoff_sleep"
    /\ sleep_left = 0
    /\ backoff' = NextBackoff(backoff)
    /\ error_logged' = ShouldWarn(consecutive_failures)
    /\ pc' = "loop_test"
    /\ waited' = 0
    /\ UNCHANGED <<should_shutdown, price_window, consecutive_failures,
                   poll_i, sleep_left, exit_status, uncaught,
                   recorded, sma_log, failRun, elapsed, late_fetches, begun>>

Next ==
    \/ Sigint
    \/ LoopTest
    \/ FetchBegin
    \/ FetchOk(Prices, MaxRecords)
    \/ FetchFail(MaxFails)
    \/ FetchCrash
    \/ PollCheck
    \/ Tick
    \/ PollSleepReturn
    \/ BackoffReturn

Spec == Init /\ [][Next]_vars

NextB ==
    \/ Sigint
    \/ LoopTest
    \/ FetchBegin
    \/ FetchOk(PricesB, MaxRecordsB)
    \/ FetchFail(MaxFailsB)
    \/ FetchCrash
    \/ PollCheck
    \/ Tick
    \/ PollSleepReturn
    \/ BackoffReturn

SpecBackoff == Init /\ [][NextB]_vars

NextS ==
    \/ Sigint
    \/ LoopTest
    \/ FetchBegin
    \/ FetchOk(PricesS, MaxRecordsS)
    \/ FetchFail(MaxFailsS)
    \/ FetchCrash
    \/ PollCheck
    \/ Tick
    \/ PollSleepReturn
    \/ BackoffReturn

SpecScenario == Init /\ [][NextS]_vars

TypeOK ==
    /\ should_shutdown \in BOOLEAN
    /\ pc \in {"loop_test", "call_fetch", "in_flight", "poll_check",
               "poll_sleep", "backoff_sleep", "exited", "crashed"}
    /\ consecutive_failures \in Nat
    /\ backoff \in Nat
    /\ poll_i \in 0..PollSteps
    /\ sleep_left \in Nat
    /\ error_logged \in BOOLEAN
    /\ exit_status \in {-1, 0, 1}
    /\ uncaught \in Raised \cup {"none"}
    /\ waited \in 0..LateCap
    /\ late_fetches \in 0..LateCap
    /\ begun \in BOOLEAN

\* ---------------------------------------------------------- properties
\* C1: every failed fetch attempt, whatever its kind, is absorbed by the
\* loop: no exception leaves main(), and the loop is left only when
\* shutdown has been requested.
C1_FailuresAbsorbed ==
    /\ uncaught = "none"
    /\ pc \in Terminal => (pc = "exited" /\ should_shutdown)

\* C2: when shutdown is requested during a wait (the poll-interval wait or
\* the backoff wait), the wait returns within one 0.1 s step of the
\* request: no wait sleeps more than one tick after the request.
C2_WaitEndsWithinOneStep == waited <= 1

\* The poll-interval wait alone does end within one step of the request.
PollWaitEndsWithinOneStep ==
    pc \in {"poll_check", "poll_sleep"} => waited <= 1

\* C3: the backoff wait performed for the k-th failure of a run of
\* consecutive failures is min(2^(k-1), 60) seconds, in progress and once
\* completed; a success ends the run, so the next failure waits 1 second.
C3_BackoffSequence ==
    /\ pc = "backoff_sleep" =>
          elapsed + sleep_left = TicksPerSecond * Min(Pow2(failRun - 1), 60)
    /\ (pc = "loop_test" /\ failRun > 0) =>
          elapsed = TicksPerSecond * Min(Pow2(failRun - 1), 60)

C3_Witness ==
    /\ pc = "loop_test"
    /\ failRun = 8
    /\ elapsed = 600
    /\ Len(recorded) > 0

\* C4: the average of the k-th status line is the arithmetic mean of the
\* last min(k, 10) fetched values, the k-th included, in arrival order.
C4_AverageOfLastTen ==
    [][ sma_log' # sma_log =>
           LET k == Len(recorded')
               n == Min(k, 10)
               last == SubSeq(recorded', k - n + 1, k)
               sma == sma_log'[k]
           IN  /\ Len(recorded') = Len(recorded) + 1
               /\ Len(sma_log') = k
               /\ SubSeq(sma_log', 1, k - 1) = sma_log
               /\ sma[1] * n = sma[2] * SumSeq(last)
      ]_vars

C4_Witness ==
    /\ Len(sma_log) = 11
    /\ recorded[1] = 200
    /\ \A j \in 2..11 : recorded[j] = 100
    /\ sma_log[10] = <<110, 1>>
    /\ sma_log[11] = <<100, 1>>

\* C5: the window never holds more than 10 samples and is exactly the last
\* min(n, 10) of the n samples recorded so far, in arrival order, each
\* once: a record at capacity evicts the oldest, and after 11 records the
\* window holds 10 samples without the first.
C5_WindowIsLastTen ==
    /\ Len(price_window) <= 10
    /\ Len(price_window) = Min(Len(recorded), 10)
    /\ price_window =
          SubSeq(recorded, Len(recorded) - Len(price_window) + 1, Len(recorded))
    /\ Len(recorded) = 11 => price_window = Tail(recorded)

C5_Witness ==
    /\ Len(recorded) = 11
    /\ recorded[1] = 200
    /\ price_window = [j \in 1..10 |-> 100]

\* C6 as stated: no fetch attempt begins in a state where shutdown has
\* already been requested.
C6_NoFetchAfterRequest == late_fetches = 0

\* C6 as amended: a fetch attempt is reached only from a loop test that
\* read the flag as false, a loop test that reads it as true leaves the
\* loop with status 0 and no fetch, and at most one fetch attempt begins
\* after the request (the one whose loop test had already passed).
C6_FetchGuardedByLoopTest ==
    [][ /\ (pc = "loop_test" /\ should_shutdown /\ pc' # pc) =>
              (pc' = "exited" /\ exit_status' = 0 /\ begun' = begun)
        /\ (pc' = "call_fetch" /\ pc # "call_fetch") =>
              (pc = "loop_test" /\ ~should_shutdown)
        /\ (pc' = "in_flight" /\ pc # "in_flight") => pc = "call_fetch"
        /\ late_fetches' <= 1
        /\ (~begun /\ should_shutdown /\ pc = "loop_test") => ~begun'
      ]_vars

C6_Witness ==
    /\ pc = "exited"
    /\ exit_status = 0
    /\ ~begun
    /\ recorded = <<>>

\* C7: once shutdown has been requested, the process ends only in the
\* ShuttingDown state with status 0; no other exit path is taken.
C7_ShutdownExitsZero ==
    (should_shutdown /\ pc \in Terminal) => (pc = "exited" /\ exit_status = 0)

\* C8: the escalated report is raised for a failed attempt exactly when it
\* is at least the 5th consecutive failure; the next success clears it;
\* raising it leaves the loop running.
C8_EscalationFromFifthFailure ==
    [][ /\ (pc = "backoff_sleep" /\ pc' = "loop_test") =>
              /\ error_logged' <=> (failRun >= 5)
              /\ exit_status' = -1
        /\ (pc = "in_flight" /\ pc' = "backoff_sleep") => ~error_logged'
        /\ (pc = "in_flight" /\ pc' = "poll_check") => ~error_logged'
      ]_vars

C8_Witness ==
    /\ pc = "call_fetch"
    /\ error_logged
    /\ failRun = 5

C10_BackoffCoupled ==
    /\ 1 <= backoff /\ backoff <= 60
    /\ pc = "loop_test" =>
          /\ backoff = Min(Pow2(consecutive_failures), 60)
          /\ (backoff = 1) <=> (consecutive_failures = 0)

C10_Witness ==
    /\ pc = "loop_test"
    /\ consecutive_failures = 7
    /\ backoff = 60
====
